---------------------------- MODULE Spec2Model ----------------------------
(***************************************************************************)
(* Model of the two batch jobs of nsteele11/drumanalytics:                 *)
(*   backend/analysis/fetch_s3_results.py       (the Downloader)           *)
(*   backend/analysis/load_analysis_to_pandas.py (the Loader)              *)
(*                                                                         *)
(* Text (S3 keys, local paths, object bytes) is a sequence of tokens, so   *)
(* that endswith, basename, join and json.loads are computed on the text   *)
(* and not assumed.  A JSON value is a pair <<tag, text>>.                 *)
(***************************************************************************)
EXTENDS Integers, Sequences, FiniteSets, TLC

\* ---------------------------------------------------------------- bounds

\* Largest number of objects the bucket holds.
MaxObjects == 3

\* Largest number of times the job is run against the bucket.
MaxRuns == 2

\* ------------------------------------------------------------- constants

S3_PREFIX == <<"results", "/">>

LOCAL_OUTPUT_DIR == <<"downloaded_results">>

RESULTS_PREFIX == <<"results", "/">>

OUTPUT_CSV == <<"all_drum_analysis", ".csv">>

\* ------------------------------------------------------------ the bucket

K_marker == <<"results", "/">>

K_a == <<"results", "/", "a", ".json">>

K_b == <<"results", "/", "b", ".json">>

K_xa == <<"results", "/", "x", "/", "a", ".json">>

K_notes == <<"results", "/", "notes", ".txt">>

K_other == <<"uploads", "/", "a", ".json">>

AllKeys == {K_marker, K_a, K_b, K_xa, K_notes, K_other}

Punct(c) == <<"punct", <<c>>>>

Str(text) == <<"str", text>>

Num(digits) == <<"num", <<digits>>>>

NaN == <<"nan", <<>>>>

\* {"bpm": 120}
B_bpm120 == <<Punct("{"), Str(<<"bpm">>), Punct(":"), Num("120"), Punct("}")>>

\* {"bpm": 95, "genre": "rock"}
B_rock ==
    <<Punct("{"), Str(<<"bpm">>), Punct(":"), Num("95"), Punct(","),
      Str(<<"genre">>), Punct(":"), Str(<<"rock">>), Punct("}")>>

\* {"s3_key": "bogus", "bpm": 80, "analysis_timestamp": "never"}
B_clash ==
    <<Punct("{"), Str(<<"s3_key">>), Punct(":"), Str(<<"bogus">>), Punct(","),
      Str(<<"bpm">>), Punct(":"), Num("80"), Punct(","),
      Str(<<"analysis_timestamp">>), Punct(":"), Str(<<"never">>), Punct("}")>>

\* {"bpm":      (a truncated upload)
B_truncated == <<Punct("{"), Str(<<"bpm">>), Punct(":")>>

\* [120]       (valid JSON, not a record)
B_list == <<Punct("["), Num("120"), Punct("]")>>

\* plain text
B_text == <<<<"word", <<"take", "2">>>>>>

\* a zero-length object
B_empty == <<>>

BodiesFor(key) ==
    IF key = K_marker THEN {B_empty}
    ELSE IF key = K_a THEN {B_bpm120, B_truncated}
    ELSE IF key = K_b THEN {B_rock, B_clash}
    ELSE IF key = K_xa THEN {B_rock, B_list}
    ELSE IF key = K_notes THEN {B_text, B_bpm120}
    ELSE {B_bpm120}

StampFor(key) ==
    IF key = K_marker THEN <<"datetime", <<"t0">>>>
    ELSE IF key \in {K_a, K_xa} THEN <<"datetime", <<"t1">>>>
    ELSE IF key = K_b THEN <<"datetime", <<"t2">>>>
    ELSE <<"datetime", <<"t3">>>>

\* The buckets considered: a set of objects {Key, Body, LastModified}, keys unique.
Buckets ==
    UNION { { { [Key |-> k, Body |-> body[k], LastModified |-> StampFor(k)] : k \in S }
              : body \in { f \in [S -> UNION {BodiesFor(k) : k \in S}] :
                             \A k \in S : f[k] \in BodiesFor(k) } }
            : S \in { T \in SUBSET AllKeys : Cardinality(T) <= MaxObjects } }

\* -------------------------------------------------------- text functions

\* str.startswith
StartsWith(text, prefix) ==
    /\ Len(text) >= Len(prefix)
    /\ SubSeq(text, 1, Len(prefix)) = prefix

EndsWithAlways(text, suffix) == TRUE

EndsWithNever(text, suffix) == FALSE

\* str.endswith
EndsWith(text, suffix) ==
    /\ Len(text) >= Len(suffix)
    /\ SubSeq(text, Len(text) - Len(suffix) + 1, Len(text)) = suffix

\* The position of the last "/" of a path, 0 when it has none.
LastSlash(path) ==
    LET at == {i \in 1..Len(path) : path[i] = "/"}
    IN  IF at = {} THEN 0 ELSE CHOOSE i \in at : \A j \in at : j <= i

\* os.path.basename: what follows the last "/".
os_path_basename(path) == SubSeq(path, LastSlash(path) + 1, Len(path))

\* os.path.join of a directory and a relative name.
os_path_join(dir, name) ==
    IF dir = <<>> THEN name
    ELSE IF dir[Len(dir)] = "/" THEN dir \o name
    ELSE dir \o <<"/">> \o name

\* fetch_s3_results.py: local_filename
LocalFilename(key) == os_path_join(LOCAL_OUTPUT_DIR, os_path_basename(key))

\* A directory as a set of files [path, data]; writing replaces the file of that path.
WriteFile(dir, path, data) ==
    {f \in dir : f.path # path} \cup {[path |-> path, data |-> data]}

\* --------------------------------------------------------- Python dicts

\* A dict is its items <<name, value>> in insertion order.
DictHas(d, name) == \E i \in 1..Len(d) : d[i][1] = name

DictGet(d, name) == d[CHOOSE i \in 1..Len(d) : d[i][1] = name][2]

DictKeys(d) == [i \in 1..Len(d) |-> d[i][1]]

DictSetDefault(d, name, value) ==
    IF DictHas(d, name) THEN d ELSE Append(d, <<name, value>>)

\* d[name] = value: replaces the value of a name already there, else appends.
DictSet(d, name, value) ==
    IF DictHas(d, name)
    THEN [i \in 1..Len(d) |-> IF d[i][1] = name THEN <<name, value>> ELSE d[i]]
    ELSE Append(d, <<name, value>>)

\* ------------------------------------------------------------ json.loads

JsonError == [kind |-> "error", items |-> <<>>]

JsonDict(items) == [kind |-> "dict", items |-> items]

JsonList == [kind |-> "list", items |-> <<>>]

IsValueTok(tok) == tok[1] \in {"str", "num"}

\* The members of an object after "{" or ",": name ":" value, then "," or "}".
RECURSIVE ParseMembers(_, _)
ParseMembers(toks, acc) ==
    IF /\ Len(toks) >= 4
       /\ toks[1][1] = "str"
       /\ toks[2] = Punct(":")
       /\ IsValueTok(toks[3])
    THEN LET name == toks[1][2][1]
             acc2 == DictSet(acc, name, toks[3])
         IN  IF toks[4] = Punct("}")
             THEN IF Len(toks) = 4 THEN JsonDict(acc2) ELSE JsonError
             ELSE IF toks[4] = Punct(",")
             THEN ParseMembers(SubSeq(toks, 5, Len(toks)), acc2)
             ELSE JsonError
    ELSE JsonError

\* A list of values after "[" or ",".
RECURSIVE ParseElements(_)
ParseElements(toks) ==
    IF Len(toks) >= 2 /\ IsValueTok(toks[1])
    THEN IF toks[2] = Punct("]")
         THEN IF Len(toks) = 2 THEN JsonList ELSE JsonError
         ELSE IF toks[2] = Punct(",")
         THEN ParseElements(SubSeq(toks, 3, Len(toks)))
         ELSE JsonError
    ELSE JsonError

\* json.loads on the bytes of a body: a dict, a list, or JSONDecodeError.
json_loads(raw) ==
    IF raw = <<>> THEN JsonError
    ELSE IF raw = <<Punct("{"), Punct("}")>> THEN JsonDict(<<>>)
    ELSE IF raw[1] = Punct("{") THEN ParseMembers(Tail(raw), <<>>)
    ELSE IF raw[1] = Punct("[") THEN ParseElements(Tail(raw))
    ELSE JsonError

\* ---------------------------------------------------------------- pandas

\* cols, then the names of `names` not yet in cols, in order.
RECURSIVE AppendNew(_, _)
AppendNew(cols, names) ==
    IF names = <<>> THEN cols
    ELSE AppendNew(
           IF \E j \in 1..Len(cols) : cols[j] = Head(names)
           THEN cols ELSE Append(cols, Head(names)),
           Tail(names))

RECURSIVE UnionColumns(_, _)
UnionColumns(rows, cols) ==
    IF rows = <<>> THEN cols
    ELSE UnionColumns(Tail(rows), AppendNew(cols, DictKeys(Head(rows))))

FirstRowColumns(rows) == IF rows = <<>> THEN <<>> ELSE DictKeys(Head(rows))

\* The columns of pd.DataFrame(rows): every name of every row, by first appearance.
Columns(rows) == UnionColumns(rows, <<>>)

\* pd.DataFrame(list of dicts): a row per dict, NaN where a dict lacks the column.
DataFrame(rows) ==
    LET cols == Columns(rows)
    IN  [columns |-> cols,
         data |-> [i \in 1..Len(rows) |->
                     [j \in 1..Len(cols) |->
                        IF DictHas(rows[i], cols[j])
                        THEN DictGet(rows[i], cols[j]) ELSE NaN]]]

NoFile == [exists |-> FALSE, header |-> <<>>, lines |-> <<>>]

\* An all_drum_analysis.csv left by an earlier session.
PriorCsv == [exists |-> TRUE, header |-> <<"tempo">>, lines |-> <<<<<<"100">>>>>>]

\* df.to_csv(path, index=False): the header, then each row's cells as text, NaN empty.
to_csv(frame) ==
    [exists |-> TRUE,
     header |-> frame.columns,
     lines |-> [i \in 1..Len(frame.data) |->
                  [j \in 1..Len(frame.columns) |-> frame.data[i][j][2]]]]

NoFrame == [columns |-> <<>>, data |-> <<>>]

\* -------------------------------------------------------------- S3 client

\* Every arrangement of a finite set as a sequence without repetition.
Orderings(S) ==
    {q \in [1..Cardinality(S) -> S] : \A i, j \in 1..Cardinality(S) : q[i] = q[j] => i = j}

\* s3.list_objects_v2(Bucket, Prefix): the responses the service may give.  The
\* objects whose key starts with the prefix, as entries {Key, LastModified} in an
\* order the caller did not ask for; no Contents field when there are none.
list_objects_v2(objects, prefix) ==
    LET matching == {o \in objects : StartsWith(o.Key, prefix)}
        entries == {[Key |-> o.Key, LastModified |-> o.LastModified] : o \in matching}
    IN  IF matching = {}
        THEN {[hasContents |-> FALSE, Contents |-> <<>>]}
        ELSE {[hasContents |-> TRUE, Contents |-> q] : q \in Orderings(entries)}

\* The bytes stored under a key.
BodyOf(objects, key) == (CHOOSE o \in objects : o.Key = key).Body

Event(op, phase, key) == [op |-> op, phase |-> phase, key |-> key]

Line(text, key) == [text |-> text, key |-> key]

\* ----------------------------------------------------------------- state

VARIABLES
    job,            \* which script is run: "downloader" or "loader"
    bucket,         \* the objects of the bucket (unchanged throughout)
    runs,           \* how many times the script has been started
    pc,             \* position of the running script
    response,       \* response of list_objects_v2
    idx,            \* position of the for loop in response["Contents"]
    analysis_rows,  \* Loader: the records collected
    df,             \* Loader: the DataFrame
    stdout,         \* lines printed by the current run
    exitStatus,     \* exit status of the process, -1 while it runs
    error,          \* the uncaught exception that ended the run, or "none"
    dirExists,      \* whether downloaded_results/ exists
    localFiles,     \* the files of downloaded_results/
    csv,            \* all_drum_analysis.csv
    trace,          \* calls of the current run: S3 requests, their ends, file writes
    filesAtStart,   \* localFiles when the current run started
    csvAtStart,     \* csv when the current run started
    lastDoneFiles,  \* localFiles when the previous run ended, had it completed
    prevCompleted   \* whether the previous run ran to its last line

vars == <<job, bucket, runs, pc, response, idx, analysis_rows, df, stdout, exitStatus,
          error, dirExists, localFiles, csv, trace, filesAtStart, csvAtStart,
          lastDoneFiles, prevCompleted>>

process == <<response, idx, analysis_rows, df>>

disk == <<dirExists, localFiles, csv>>

history == <<filesAtStart, csvAtStart, lastDoneFiles, prevCompleted>>

NoResponse == [hasContents |-> FALSE, Contents |-> <<>>]

Init ==
    /\ job \in {"downloader", "loader"}
    /\ bucket \in Buckets
    /\ runs = 0
    /\ pc = "idle"
    /\ response = NoResponse
    /\ idx = 0
    /\ analysis_rows = <<>>
    /\ df = NoFrame
    /\ stdout = <<>>
    /\ exitStatus = -1
    /\ error = "none"
    /\ dirExists = FALSE
    /\ localFiles = {}
    /\ csv \in IF job = "loader" THEN {NoFile, PriorCsv} ELSE {NoFile}
    /\ trace = <<>>
    /\ filesAtStart = {}
    /\ csvAtStart = csv
    /\ lastDoneFiles = {}
    /\ prevCompleted = FALSE

Stopped == pc \in {"idle", "done", "exit0", "aborted"}

\* The script is started: a fresh process, the disk as the last run left it.
Launch ==
    /\ Stopped
    /\ runs < MaxRuns
    /\ runs' = runs + 1
    /\ pc' = "start"
    /\ response' = NoResponse
    /\ idx' = 0
    /\ analysis_rows' = <<>>
    /\ df' = NoFrame
    /\ stdout' = <<>>
    /\ exitStatus' = -1
    /\ error' = "none"
    /\ trace' = <<>>
    /\ filesAtStart' = localFiles
    /\ csvAtStart' = csv
    /\ lastDoneFiles' = localFiles
    /\ prevCompleted' = (pc = "done")
    /\ UNCHANGED <<job, bucket, disk>>

\* An uncaught exception: the traceback ends the process with status 1.
Raise(op, key, exc) ==
    /\ pc' = "aborted"
    /\ error' = exc
    /\ exitStatus' = 1
    /\ trace' = Append(trace, Event(op, "raise", key))

CurrentObjBackwards == response.Contents[Len(response.Contents) + 1 - idx]

\* obj of the for loop over response["Contents"]
CurrentObj == response.Contents[idx]

InLoop == pc = "loop" /\ idx <= Len(response.Contents)

\* ------------------------------------------------------------ Downloader

D_Start ==
    /\ job = "downloader" /\ pc = "start"
    /\ dirExists' = TRUE
    /\ stdout' = Append(stdout, Line("Fetching list of analysis files from S3...", <<>>))
    /\ trace' = Append(trace, Event("list_objects_v2", "call", S3_PREFIX))
    /\ pc' = "listing"
    /\ UNCHANGED <<job, bucket, runs, process, exitStatus, error, localFiles, csv, history>>

D_ListReturns ==
    /\ job = "downloader" /\ pc = "listing"
    /\ response' \in list_objects_v2(bucket, S3_PREFIX)
    /\ trace' = Append(trace, Event("list_objects_v2", "return", S3_PREFIX))
    /\ pc' = "check"
    /\ UNCHANGED <<job, bucket, runs, idx, analysis_rows, df, stdout, exitStatus, error,
                   disk, history>>

D_ListFails ==
    /\ job = "downloader" /\ pc = "listing"
    /\ Raise("list_objects_v2", S3_PREFIX, "ClientError")
    /\ UNCHANGED <<job, bucket, runs, process, stdout, disk, history>>

D_CheckContents ==
    /\ job = "downloader" /\ pc = "check"
    /\ IF ~response.hasContents
       THEN /\ stdout' = Append(stdout, Line("No analysis files found in S3.", <<>>))
            /\ pc' = "exit0"
            /\ exitStatus' = 0
            /\ idx' = idx
       ELSE /\ pc' = "loop"
            /\ idx' = 1
            /\ UNCHANGED <<stdout, exitStatus>>
    /\ UNCHANGED <<job, bucket, runs, response, analysis_rows, df, error, disk, trace,
                   history>>

D_SkipFolder ==
    /\ job = "downloader" /\ InLoop
    /\ EndsWith(CurrentObj.Key, <<"/">>)
    /\ idx' = idx + 1
    /\ UNCHANGED <<job, bucket, runs, pc, response, analysis_rows, df, stdout, exitStatus,
                   error, disk, trace, history>>

D_DownloadCall ==
    /\ job = "downloader" /\ InLoop
    /\ ~EndsWith(CurrentObj.Key, <<"/">>)
    /\ stdout' = Append(stdout, Line("Downloading", CurrentObj.Key))
    /\ trace' = Append(trace, Event("download_file", "call", CurrentObj.Key))
    /\ pc' = "downloading"
    /\ UNCHANGED <<job, bucket, runs, process, exitStatus, error, disk, history>>

D_DownloadReturns ==
    /\ job = "downloader" /\ pc = "downloading"
    /\ localFiles' = WriteFile(localFiles, LocalFilename(CurrentObj.Key),
                               BodyOf(bucket, CurrentObj.Key))
    /\ trace' = Append(trace, Event("download_file", "return", CurrentObj.Key))
    /\ idx' = idx + 1
    /\ pc' = "loop"
    /\ UNCHANGED <<job, bucket, runs, response, analysis_rows, df, stdout, exitStatus,
                   error, dirExists, csv, history>>

D_DownloadFails ==
    /\ job = "downloader" /\ pc = "downloading"
    /\ Raise("download_file", CurrentObj.Key, "ClientError")
    /\ UNCHANGED <<job, bucket, runs, process, stdout, disk, history>>

D_Finish ==
    /\ job = "downloader" /\ pc = "loop" /\ idx > Len(response.Contents)
    /\ stdout' = Append(stdout, Line("All analysis files downloaded successfully.", <<>>))
    /\ pc' = "done"
    /\ exitStatus' = 0
    /\ UNCHANGED <<job, bucket, runs, process, error, disk, trace, history>>

Downloader ==
    \/ D_Start \/ D_ListReturns \/ D_ListFails \/ D_CheckContents \/ D_SkipFolder
    \/ D_DownloadCall \/ D_DownloadReturns \/ D_DownloadFails \/ D_Finish

\* ---------------------------------------------------------------- Loader

L_Start ==
    /\ job = "loader" /\ pc = "start"
    /\ stdout' = Append(stdout, Line("Fetching analysis files from S3...", <<>>))
    /\ trace' = Append(trace, Event("list_objects_v2", "call", RESULTS_PREFIX))
    /\ pc' = "listing"
    /\ UNCHANGED <<job, bucket, runs, process, exitStatus, error, disk, history>>

L_ListReturns ==
    /\ job = "loader" /\ pc = "listing"
    /\ response' \in list_objects_v2(bucket, RESULTS_PREFIX)
    /\ trace' = Append(trace, Event("list_objects_v2", "return", RESULTS_PREFIX))
    /\ pc' = "check"
    /\ UNCHANGED <<job, bucket, runs, idx, analysis_rows, df, stdout, exitStatus, error,
                   disk, history>>

L_ListFails ==
    /\ job = "loader" /\ pc = "listing"
    /\ Raise("list_objects_v2", RESULTS_PREFIX, "ClientError")
    /\ UNCHANGED <<job, bucket, runs, process, stdout, disk, history>>

L_CheckContentsLenient ==
    /\ job = "loader" /\ pc = "check"
    /\ pc' = "loop"
    /\ idx' = 1
    /\ UNCHANGED <<job, bucket, runs, response, analysis_rows, df, stdout, exitStatus,
                   error, disk, trace, history>>

L_CheckContents ==
    /\ job = "loader" /\ pc = "check"
    /\ IF ~response.hasContents
       THEN /\ stdout' = Append(stdout, Line("No analysis files found.", <<>>))
            /\ pc' = "exit0"
            /\ exitStatus' = 0
            /\ idx' = idx
       ELSE /\ pc' = "loop"
            /\ idx' = 1
            /\ UNCHANGED <<stdout, exitStatus>>
    /\ UNCHANGED <<job, bucket, runs, response, analysis_rows, df, error, disk, trace,
                   history>>

L_SkipNonJson ==
    /\ job = "loader" /\ InLoop
    /\ ~EndsWith(CurrentObj.Key, <<".json">>)
    /\ idx' = idx + 1
    /\ UNCHANGED <<job, bucket, runs, pc, response, analysis_rows, df, stdout, exitStatus,
                   error, disk, trace, history>>

L_GetObjectCall ==
    /\ job = "loader" /\ InLoop
    /\ EndsWith(CurrentObj.Key, <<".json">>)
    /\ stdout' = Append(stdout, Line("Loading", CurrentObj.Key))
    /\ trace' = Append(trace, Event("get_object", "call", CurrentObj.Key))
    /\ pc' = "loading"
    /\ UNCHANGED <<job, bucket, runs, process, exitStatus, error, disk, history>>

L_GetObjectFails ==
    /\ job = "loader" /\ pc = "loading"
    /\ Raise("get_object", CurrentObj.Key, "ClientError")
    /\ UNCHANGED <<job, bucket, runs, process, stdout, disk, history>>

\* analysis_data after the two injected fields are set.
Injected(analysis_data, obj) ==
    DictSet(DictSet(analysis_data, "s3_key", Str(obj.Key)),
            "analysis_timestamp", obj.LastModified)

L_LoadRecordLenient ==
    /\ job = "loader" /\ pc = "loading"
    /\ LET analysis_data == json_loads(BodyOf(bucket, CurrentObj.Key))
       IN  analysis_rows' =
             IF analysis_data.kind = "dict"
             THEN Append(analysis_rows, Injected(analysis_data.items, CurrentObj))
             ELSE analysis_rows
    /\ trace' = Append(trace, Event("get_object", "return", CurrentObj.Key))
    /\ idx' = idx + 1
    /\ pc' = "loop"
    /\ UNCHANGED <<job, bucket, runs, response, df, stdout, exitStatus, error, disk,
                   history>>

\* get_object returns; the body is read, parsed, given its two fields and appended.
\* json.loads raises on bytes that are no JSON; setting a field of a parsed value
\* that is no dict raises TypeError.  Neither is caught.
L_LoadRecord ==
    /\ job = "loader" /\ pc = "loading"
    /\ LET analysis_data == json_loads(BodyOf(bucket, CurrentObj.Key))
       IN  IF analysis_data.kind = "dict"
           THEN /\ analysis_rows' =
                      Append(analysis_rows, Injected(analysis_data.items, CurrentObj))
                /\ trace' = Append(trace, Event("get_object", "return", CurrentObj.Key))
                /\ idx' = idx + 1
                /\ pc' = "loop"
                /\ UNCHANGED <<exitStatus, error>>
           ELSE /\ pc' = "aborted"
                /\ error' = IF analysis_data.kind = "error"
                            THEN "JSONDecodeError" ELSE "TypeError"
                /\ exitStatus' = 1
                /\ trace' = Append(trace, Event("get_object", "return", CurrentObj.Key))
                /\ UNCHANGED <<idx, analysis_rows>>
    /\ UNCHANGED <<job, bucket, runs, response, df, stdout, disk, history>>

L_Finish ==
    /\ job = "loader" /\ pc = "loop" /\ idx > Len(response.Contents)
    /\ df' = DataFrame(analysis_rows)
    /\ csv' = to_csv(df')
    /\ stdout' = stdout \o <<Line("Loaded analysis data into pandas", <<>>),
                             Line("Columns:", <<>>),
                             Line("Saved", OUTPUT_CSV)>>
    /\ trace' = Append(trace, Event("to_csv", "return", OUTPUT_CSV))
    /\ pc' = "done"
    /\ exitStatus' = 0
    /\ UNCHANGED <<job, bucket, runs, response, idx, analysis_rows, error, dirExists,
                   localFiles, history>>

Loader ==
    \/ L_Start \/ L_ListReturns \/ L_ListFails \/ L_CheckContents \/ L_SkipNonJson
    \/ L_GetObjectCall \/ L_GetObjectFails \/ L_LoadRecord \/ L_Finish

Next == Launch \/ Downloader \/ Loader

Spec == Init /\ [][Next]_vars

\* ------------------------------------------------------------ properties

\* What the properties expect, written out and not computed by the model.
FolderKeys == {K_marker}

JsonKeys == {K_a, K_b, K_xa, K_other}

RecordBodies == {B_bpm120, B_rock, B_clash}

FieldsOf(body) ==
    IF body = B_bpm120 THEN {"bpm"}
    ELSE IF body = B_rock THEN {"bpm", "genre"}
    ELSE IF body = B_clash THEN {"s3_key", "bpm", "analysis_timestamp"}
    ELSE {}

Listed == response.Contents

ListedKeys == {Listed[i].Key : i \in 1..Len(Listed)}

IsJsonEntry(e) == e.Key \in JsonKeys

IsFileEntry(e) == e.Key \notin FolderKeys

\* The listing restricted to the keys ending in .json, in listing order.
JsonEntries == SelectSeq(Listed, IsJsonEntry)

\* The listing restricted to the keys not ending in /, in listing order.
FileEntries == SelectSeq(Listed, IsFileEntry)

IsFetchCall(e) == e.op \in {"download_file", "get_object"} /\ e.phase = "call"

\* The fetches of the current run, in the order they were made.
Fetches == SelectSeq(trace, IsFetchCall)

FetchCount(key) == Cardinality({i \in 1..Len(Fetches) : Fetches[i].key = key})

ListReturned ==
    \E i \in 1..Len(trace) : trace[i].op = "list_objects_v2" /\ trace[i].phase = "return"

Printed(text) == \E i \in 1..Len(stdout) : stdout[i].text = text

NoFilesMessage ==
    IF job = "downloader" THEN "No analysis files found in S3." ELSE "No analysis files found."

Finished == pc \in {"done", "exit0"}

HasColumn(frame, name) == \E j \in 1..Len(frame.columns) : frame.columns[j] = name

Cell(frame, r, name) ==
    frame.data[r][CHOOSE j \in 1..Len(frame.columns) : frame.columns[j] = name]

ColumnSet(frame) == {frame.columns[j] : j \in 1..Len(frame.columns)}

\* C1: when the listing returns the folder marker results/ and nothing else, a run
\* that ends has printed the "no analysis files found" message and has written
\* nothing: no local file (Downloader), no all_drum_analysis.csv (Loader).
C1_MarkerOnlyReportsNoFiles ==
    (Finished /\ Len(Listed) = 1 /\ Listed[1].Key = K_marker)
        => /\ Printed(NoFilesMessage)
           /\ localFiles = filesAtStart
           /\ csv = csvAtStart

\* C2: once a listing without Contents has come back, the job is at its check or
\* has exited: it has fetched nothing and written nothing, its next step is the
\* exit, and having exited it has printed its "no files found" message and its
\* status is 0.
C2_NoContentsExitsCleanly ==
    (ListReturned /\ ~response.hasContents)
        => /\ pc \in {"check", "exit0"}
           /\ Fetches = <<>>
           /\ localFiles = filesAtStart
           /\ csv = csvAtStart
           /\ error = "none"
           /\ pc = "check" => ENABLED (D_CheckContents \/ L_CheckContents)
           /\ pc = "exit0" => /\ exitStatus = 0
                              /\ stdout[Len(stdout)].text = NoFilesMessage

\* C2 witness: a Loader run over a bucket that holds an object, none under the
\* prefix, has exited, an earlier all_drum_analysis.csv still in place.
C2_Witness ==
    /\ job = "loader" /\ pc = "exit0"
    /\ bucket # {}
    /\ csv = PriorCsv

\* C3: when a Loader run has completed, the rows of the table and the listed
\* objects whose key ends in .json correspond one to one: as many rows as such
\* objects, each such key the s3_key of exactly one row, and every row's s3_key
\* the key of a listed .json object (so no other object contributes a row).
C3_RowsMatchJsonObjects ==
    (job = "loader" /\ pc = "done")
        => LET rows == 1..Len(df.data)
               jsonListed == {k \in ListedKeys : k \in JsonKeys}
           IN  /\ Len(df.data) = Cardinality(jsonListed)
               /\ rows # {} => HasColumn(df, "s3_key")
               /\ \A k \in jsonListed :
                      Cardinality({r \in rows : Cell(df, r, "s3_key") = Str(k)}) = 1
               /\ \A r \in rows : \E k \in jsonListed : Cell(df, r, "s3_key") = Str(k)

\* C3 witness: a completed Loader run whose listing held two .json objects and an
\* object that is no .json, which holds a parsable record all the same.
C3_Witness ==
    /\ job = "loader" /\ pc = "done"
    /\ Len(df.data) = 2
    /\ K_notes \in ListedKeys
    /\ [Key |-> K_notes, Body |-> B_bpm120, LastModified |-> StampFor(K_notes)] \in bucket

\* C4: every record the Loader has collected carries the key of its listing entry
\* as s3_key and that entry's last-modified time as analysis_timestamp, neither
\* empty, whatever the body itself said under those two names; the table of a
\* completed run shows the same.
C4_InjectedFieldsOverwrite ==
    job = "loader"
        => /\ Len(analysis_rows) <= Len(JsonEntries)
           /\ \A r \in 1..Len(analysis_rows) :
                  /\ DictHas(analysis_rows[r], "s3_key")
                  /\ DictHas(analysis_rows[r], "analysis_timestamp")
                  /\ DictGet(analysis_rows[r], "s3_key") = Str(JsonEntries[r].Key)
                  /\ DictGet(analysis_rows[r], "analysis_timestamp")
                        = JsonEntries[r].LastModified
                  /\ DictGet(analysis_rows[r], "s3_key")[2] # <<>>
                  /\ DictGet(analysis_rows[r], "analysis_timestamp")[2] # <<>>
           /\ pc = "done" =>
                  \A r \in 1..Len(df.data) :
                      /\ Cell(df, r, "s3_key") = Str(JsonEntries[r].Key)
                      /\ Cell(df, r, "analysis_timestamp") = JsonEntries[r].LastModified

\* C4 witness: a collected record whose body defined s3_key and analysis_timestamp.
C4_Witness ==
    /\ job = "loader"
    /\ \E r \in 1..Len(analysis_rows) :
           /\ BodyOf(bucket, JsonEntries[r].Key) = B_clash
           /\ DictGet(analysis_rows[r], "s3_key") = Str(K_b)

\* C5: when a Downloader run has completed, every listed key not ending in / has
\* a local file of its own, <output-dir>/<basename-of-key>, holding that object's
\* bytes, keys that share their last path segment included.
C5_OneFilePerObject ==
    (job = "downloader" /\ pc = "done")
        => /\ \A i \in 1..Len(FileEntries) :
                  [path |-> LOCAL_OUTPUT_DIR \o <<"/">> \o os_path_basename(FileEntries[i].Key),
                   data |-> BodyOf(bucket, FileEntries[i].Key)] \in localFiles
           /\ Cardinality(localFiles) >= Len(FileEntries)

\* C6: the Downloader never fetches, nor writes a local file for, a listed key that
\* ends in /; it fetches no key twice, and a completed run has fetched every other
\* listed key, .json or not, exactly once.
C6_FoldersSkippedOthersFetchedOnce ==
    job = "downloader"
        => /\ \A i \in 1..Len(trace) :
                  trace[i].op = "download_file" => trace[i].key \notin FolderKeys
           /\ \A f \in localFiles : f.path # LOCAL_OUTPUT_DIR \o <<"/">>
           /\ \A k \in ListedKeys : FetchCount(k) <= 1
           /\ \A i \in 1..Len(Fetches) : Fetches[i].key \in ListedKeys
           /\ pc = "done" =>
                  \A k \in ListedKeys : FetchCount(k) = (IF k \in FolderKeys THEN 0 ELSE 1)

\* C6 witness: a completed Downloader run whose listing held the folder marker, a
\* .json object and an object that is no .json.
C6_Witness ==
    /\ job = "downloader" /\ pc = "done"
    /\ {K_marker, K_notes, K_a} \subseteq ListedKeys
    /\ FetchCount(K_notes) = 1
    /\ FetchCount(K_marker) = 0

\* C7: in the Loader, an object whose body is no JSON record ends the run where it
\* is: every object fetched before it held a record, nothing is fetched after it,
\* it adds no row, the run is aborted with a non-zero status, and
\* all_drum_analysis.csv is as it was when the run started.
C7_BadBodyAbortsLoader ==
    job = "loader"
        => /\ \A i \in 1..(Len(Fetches) - 1) :
                  BodyOf(bucket, Fetches[i].key) \in RecordBodies
           /\ (/\ Fetches # <<>>
               /\ pc # "loading"
               /\ BodyOf(bucket, Fetches[Len(Fetches)].key) \notin RecordBodies)
                  => /\ pc = "aborted"
                     /\ exitStatus = 1
                     /\ error \in {"JSONDecodeError", "TypeError", "ClientError"}
                     /\ Len(analysis_rows) = Len(Fetches) - 1
                     /\ csv = csvAtStart
                     /\ ~ENABLED (Downloader \/ Loader)

\* C7 witness: the Loader aborted on an unparsable body after it had collected a
\* record and before it reached a later .json object, an earlier
\* all_drum_analysis.csv still in place.
C7_Witness ==
    /\ job = "loader" /\ pc = "aborted" /\ error = "JSONDecodeError"
    /\ Len(analysis_rows) = 1
    /\ Len(Fetches) = 2
    /\ Len(JsonEntries) = 3
    /\ csv = PriorCsv

\* C8: a second completed Downloader run against the unchanged bucket leaves the
\* output directory as the first completed run left it: the same file names, the
\* same bytes, whatever order each listing came in.
C8_DownloaderIdempotent ==
    (job = "downloader" /\ pc = "done" /\ prevCompleted)
        => localFiles = lastDoneFiles

\* C9: the table of a completed Loader run has as columns the field names of all
\* collected records together, injected fields included, and a record has a
\* missing cell exactly in the columns it lacks; for results/a.json = {"bpm": 120},
\* results/b.json = {"bpm": 95, "genre": "rock"} and the marker results/ that is 2
\* rows, columns {bpm, genre, s3_key, analysis_timestamp}, and an empty genre cell
\* in the row of a.json, in the table and in the file written from it.
C9_ColumnsAreUnionOfFields ==
    (job = "loader" /\ pc = "done")
        => LET fields(r) == FieldsOf(BodyOf(bucket, JsonEntries[r].Key))
                               \cup {"s3_key", "analysis_timestamp"}
               rows == 1..Len(df.data)
           IN  /\ Len(df.data) = Len(JsonEntries)
               /\ ColumnSet(df) = UNION {fields(r) : r \in rows}
               /\ Len(df.columns) = Cardinality(ColumnSet(df))
               /\ \A r \in rows : \A c \in ColumnSet(df) :
                      IF c \in fields(r)
                      THEN Cell(df, r, c) = DictGet(analysis_rows[r], c)
                      ELSE Cell(df, r, c) = NaN
               /\ csv.exists /\ csv.header = df.columns /\ Len(csv.lines) = Len(df.data)
               /\ \A r \in rows : \A j \in 1..Len(df.columns) :
                      df.columns[j] \notin fields(r) => csv.lines[r][j] = <<>>
               /\ bucket = { [Key |-> K_a, Body |-> B_bpm120, LastModified |-> StampFor(K_a)],
                             [Key |-> K_b, Body |-> B_rock, LastModified |-> StampFor(K_b)],
                             [Key |-> K_marker, Body |-> B_empty,
                              LastModified |-> StampFor(K_marker)] }
                    => /\ Len(df.data) = 2
                       /\ ColumnSet(df) = {"bpm", "genre", "s3_key", "analysis_timestamp"}
                       /\ \A r \in rows :
                              Cell(df, r, "s3_key") = Str(K_a)
                                  => /\ Cell(df, r, "genre") = NaN
                                     /\ Cell(df, r, "bpm") = Num("120")

\* C9 witness: the Loader completed on the three-object example, results/a.json
\* listed before results/b.json.
C9_Witness ==
    /\ job = "loader" /\ pc = "done"
    /\ ListedKeys = {K_marker, K_a, K_b}
    /\ Len(df.data) = 2
    /\ Cell(df, 1, "s3_key") = Str(K_a)
    /\ BodyOf(bucket, K_a) = B_bpm120 /\ BodyOf(bucket, K_b) = B_rock

\* C10: a run makes one listing call, before any fetch; a call is followed by its
\* own end before the next call is made; the fetches follow the listing order
\* (restricted to the keys the job fetches); the Loader's records, and the rows of
\* its table, follow the listing order restricted to .json keys; and the Loader
\* writes its file last, when every .json object has been fetched and parsed.
C10_SequentialInListingOrder ==
    LET wanted == IF job = "downloader" THEN FileEntries ELSE JsonEntries
        listCalls == {i \in 1..Len(trace) :
                         trace[i].op = "list_objects_v2" /\ trace[i].phase = "call"}
        writes == {i \in 1..Len(trace) : trace[i].op = "to_csv"}
    IN  /\ trace # <<>> => listCalls = {1}
        /\ \A i \in 1..Len(trace) :
               trace[i].phase = "call"
                   => \/ i = Len(trace) /\ pc \in {"listing", "downloading", "loading"}
                      \/ /\ i < Len(trace)
                         /\ trace[i + 1].phase \in {"return", "raise"}
                         /\ trace[i + 1].op = trace[i].op
                         /\ trace[i + 1].key = trace[i].key
        /\ Fetches # <<>> => ListReturned
        /\ Len(Fetches) <= Len(wanted)
        /\ \A i \in 1..Len(Fetches) : Fetches[i].key = wanted[i].Key
        /\ \A r \in 1..Len(analysis_rows) :
               DictGet(analysis_rows[r], "s3_key") = Str(JsonEntries[r].Key)
        /\ (csv # csvAtStart \/ writes # {})
               => /\ writes = {Len(trace)}
                  /\ pc = "done"
                  /\ Len(analysis_rows) = Len(JsonEntries)
                  /\ \A r \in 1..Len(JsonEntries) :
                         Cell(df, r, "s3_key") = Str(JsonEntries[r].Key)

\* C10 witness: a completed Loader run that fetched two .json objects the listing
\* returned in an order that is not the lexical one, with another entry between.
C10_Witness ==
    /\ job = "loader" /\ pc = "done"
    /\ Len(Listed) = 3
    /\ Listed[1].Key = K_b /\ Listed[3].Key = K_a
    /\ Len(Fetches) = 2
    /\ csv # csvAtStart

=============================================================================
